---- MODULE Spec2Model ----
(***************************************************************************)
(* A model of package gpgeez: CreateKey, Key.Armor and Key.ArmorPrivate.   *)
(* The calls into golang.org/x/crypto/openpgp are modelled by what they do *)
(* to the Entity, the Signature and the Writer they are handed.            *)
(***************************************************************************)
EXTENDS Integers, Sequences, FiniteSets, TLC

VARIABLES
    build,  \* which source file of package gpgeez is compiled
    arch,   \* what the target does with an out-of-range float64 -> uint32
    args,   \* the arguments of the CreateKey call
    key,    \* CreateKey's local variable key, as it is when CreateKey returns
    pc,     \* "start" before the CreateKey call, "returned" after it
    r,      \* what CreateKey returned: [key, err]
    out     \* what the last Armor / ArmorPrivate call returned

vars == <<build, arch, pc, args, key, r, out>>

\* A nil error; a nil pointer to a struct; a nil pointer to a number or a nil slice.
Nil == "nil"
Null == [nil |-> TRUE]
None == <<>>

----------------------------------------------------------------------------
(* Program constants. *)

SHA1 == 2
SHA256 == 8
SHA384 == 9
SHA512 == 10
SHA224 == 11

CipherAES256 == 9
CipherAES192 == 8
CipherAES128 == 7
CipherCAST5 == 3
Cipher3DES == 2

CompressionZLIB == 2
CompressionZIP == 1

PublicKeyType == "PGP PUBLIC KEY BLOCK"
PrivateKeyType == "PGP PRIVATE KEY BLOCK"

\* A uint32 is kept as two 16-bit limbs <<hi, lo>>, value hi * Limb + lo.
Limb == 2 ^ 16
NanosPerSecond == 1000 * 1000 * 1000
SecondsPerDay == 24 * 3600

----------------------------------------------------------------------------
(* Bounds and the inputs drawn. *)

MaxLen == 1

Builds == {"gpgeez.go", "part_000"}
Archs == {"wrap", "saturate"}

\* Characters of a name: an ordinary one, one NewUserId rejects, and a space.
NameChars == {"j", "(", " "}

RECURSIVE StrsUpTo(_, _)
StrsUpTo(chars, n) ==
    IF n = 0 THEN {<<>>}
    ELSE LET shorter == StrsUpTo(chars, n - 1)
         IN shorter \cup {Append(s, c) : s \in shorter, c \in chars}

Names == StrsUpTo(NameChars, MaxLen)
Comments == {<<>>, <<"c">>}
Emails == {<<>>, <<"e">>}

\* A time.Duration: sign, whole seconds in limbs, and the nanoseconds left.
Duration(neg, hi, lo, nsec) == [neg |-> neg, hi |-> hi, lo |-> lo, nsec |-> nsec]

Durations ==
    { Duration(FALSE, 0, 0, 0),                      \* no expiry
      Duration(FALSE, 0, 1, 0),                      \* 1 s
      Duration(FALSE, 0, 1, NanosPerSecond \div 2),  \* 1.5 s
      Duration(FALSE, 481, 13184, 0),                \* 365 * 24 * time.Hour
      Duration(FALSE, Limb - 1, Limb - 1, 0),        \* 2^32 - 1 s
      Duration(FALSE, Limb, 0, 0),                   \* 2^32 s
      Duration(FALSE, Limb, 1, 0),                   \* 2^32 + 1 s
      Duration(TRUE, 0, 1, 0) }                      \* -1 s

\* Expiry of the older Config: a uint32 number of days.
Days == {<<0, 0>>, <<0, 1>>, <<0, 365>>}

Expiries(b) == IF b = "gpgeez.go" THEN Durations ELSE Days

KeyMaterial == {"k1", "k2"}

----------------------------------------------------------------------------
(* golang.org/x/crypto/openpgp, as CreateKey uses it. *)

InvalidIdChars == {"(", ")", "<", ">"}

HasInvalidChar(s) == \E i \in 1..Len(s) : s[i] \in InvalidIdChars

\* packet.NewUserId: "name (comment) <email>", Null on an invalid character.
NewUserId(name, comment, email) ==
    IF HasInvalidChar(name) \/ HasInvalidChar(comment) \/ HasInvalidChar(email)
    THEN Null
    ELSE LET id1 == name
             sp1 == IF Len(id1) > 0 THEN <<" ">> ELSE <<>>
             id2 == IF Len(comment) > 0
                    THEN id1 \o sp1 \o <<"(">> \o comment \o <<")">>
                    ELSE id1
             sp2 == IF Len(id2) > 0 THEN <<" ">> ELSE <<>>
             id3 == IF Len(email) > 0
                    THEN id2 \o sp2 \o <<"<">> \o email \o <<">">>
                    ELSE id2
         IN [Id |-> id3, Name |-> name, Comment |-> comment, Email |-> email]

PublicKeyOf(n, isSubkey) == [n |-> n, IsSubkey |-> isSubkey]

PrivateKeyOf(n, isSubkey) ==
    [PublicKey |-> PublicKeyOf(n, isSubkey), secret |-> n]

\* The fingerprint is a digest of the public key material, and the key id its tail.
Fingerprint(pk) == <<"fingerprint", pk.n>>

KeyId(pk) == <<"keyid", pk.n>>

SigTypePositiveCert == "PositiveCert"
SigTypeSubkeyBinding == "SubkeyBinding"

\* A packet.Signature as NewEntity allocates it: not signed yet.
NewSignature(sigType, issuer, isPrimaryId) ==
    [SigType |-> sigType,
     IssuerKeyId |-> issuer,
     IsPrimaryId |-> isPrimaryId,
     KeyLifetimeSecs |-> None,
     PreferredSymmetric |-> <<>>,
     PreferredHash |-> <<>>,
     PreferredCompression |-> <<>>,
     outSubpackets |-> <<>>,
     sig |-> Null]

\* openpgp.NewEntity: one primary key, one identity, one encryption subkey; the
\* error is the invalid user id or the key generation's (rand).
NewEntity(name, comment, email, rand) ==
    LET uid == NewUserId(name, comment, email)
    IN  IF uid = Null THEN [e |-> Null, err |-> "InvalidArgumentError"]
        ELSE IF rand.fail = "GenerateKey" THEN [e |-> Null, err |-> "GenerateKey"]
        ELSE LET primary == PublicKeyOf(rand.primary, FALSE)
                 sub == PublicKeyOf(rand.sub, TRUE)
             IN [e |-> [PrimaryKey |-> primary,
                        PrivateKey |-> PrivateKeyOf(rand.primary, FALSE),
                        Identities |->
                            [n \in {uid.Id} |->
                                [Name |-> uid.Id,
                                 UserId |-> uid,
                                 SelfSignature |->
                                     NewSignature(SigTypePositiveCert, KeyId(primary), TRUE),
                                 Signatures |-> <<>>]],
                        Subkeys |->
                            << [PublicKey |-> sub,
                                PrivateKey |-> PrivateKeyOf(rand.sub, TRUE),
                                Sig |-> NewSignature(SigTypeSubkeyBinding, KeyId(primary), FALSE)] >>],
                 err |-> Nil]

Subpacket(type, val) == [type |-> type, val |-> val]

OptSubpacket(cond, type, val) == IF cond THEN <<Subpacket(type, val)>> ELSE <<>>

\* Signature.buildSubpackets: the subpackets a signature is hashed and serialized
\* with. A zero key lifetime and an empty preference list are left out.
buildSubpackets(sig) ==
    OptSubpacket(sig.IssuerKeyId # None, "issuer", sig.IssuerKeyId)
    \o OptSubpacket(sig.KeyLifetimeSecs # None /\ sig.KeyLifetimeSecs # <<0, 0>>,
                    "keyExpiration", sig.KeyLifetimeSecs)
    \o OptSubpacket(sig.IsPrimaryId, "primaryUserId", TRUE)
    \o OptSubpacket(Len(sig.PreferredSymmetric) > 0, "prefSymmetricAlgos", sig.PreferredSymmetric)
    \o OptSubpacket(Len(sig.PreferredHash) > 0, "prefHashAlgos", sig.PreferredHash)
    \o OptSubpacket(Len(sig.PreferredCompression) > 0, "prefCompression", sig.PreferredCompression)

\* Signature.Sign: build the subpackets from the fields as they are now, then sign
\* the data and the subpackets with priv.
Sign(sig, data, priv) ==
    LET sub == buildSubpackets(sig)
    IN  [sig EXCEPT !.outSubpackets = sub,
                    !.sig = [signer |-> priv.secret, over |-> <<data, sub>>]]

\* Signature.Sign when the signing primitive returns an error: the subpackets are
\* rebuilt and the signature bytes are assigned the nil of the failed call.
SignFailed(sig) == [sig EXCEPT !.outSubpackets = buildSubpackets(sig), !.sig = Null]

UserIdData(id, pub) == <<"userid", pub.n, id>>

KeyData(primary, pub) == <<"key", primary.n, pub.n>>

SignUserId(sig, id, pub, priv) == Sign(sig, UserIdData(id, pub), priv)

SignKey(sig, pub, priv) == Sign(sig, KeyData(priv.PublicKey, pub), priv)

\* PublicKey.VerifySignature and its callers.
Verifies(sig, data, pub) ==
    /\ sig.sig # Null
    /\ sig.sig.signer = pub.n
    /\ sig.sig.over = <<data, sig.outSubpackets>>

----------------------------------------------------------------------------
(* CreateKey. *)

\* float64 -> uint32 of a value with whole seconds <<hi, lo>>: truncation toward
\* zero; out of range the result is the target's (wrap: the low 32 bits of the
\* int64; saturate: the nearest bound).
Uint32OfSeconds(d, a) ==
    IF d.hi = 0 /\ d.lo = 0 THEN <<0, 0>>
    ELSE IF ~d.neg /\ d.hi < Limb THEN <<d.hi, d.lo>>
    ELSE IF a = "saturate"
         THEN IF d.neg THEN <<0, 0>> ELSE <<Limb - 1, Limb - 1>>
    ELSE IF ~d.neg THEN <<d.hi % Limb, d.lo>>
    ELSE IF d.lo = 0 THEN <<(Limb - (d.hi % Limb)) % Limb, 0>>
    ELSE <<Limb - 1 - (d.hi % Limb), Limb - d.lo>>

\* dur := uint32(config.Expiry.Seconds()), and the older dur := uint32(config.Expiry).
Dur(config, b, a) ==
    IF b = "gpgeez.go" THEN Uint32OfSeconds(config.Expiry, a) ELSE config.Expiry

PreferredSymmetric ==
    <<CipherAES256, CipherAES192, CipherAES128, CipherCAST5, Cipher3DES>>

\* SHA-1 ranked first, as GnuPG ranks it.
PreferredHash_Sha1First == <<SHA1, SHA256, SHA384, SHA512, SHA224>>

PreferredHash == <<SHA256, SHA1, SHA384, SHA512, SHA224>>

PreferredCompression == <<CompressionZLIB, CompressionZIP>>

\* The assignments to id.SelfSignature before it is signed.
SetSelfSignature(sig, dur) ==
    [sig EXCEPT !.KeyLifetimeSecs = dur,
                !.PreferredSymmetric = PreferredSymmetric,
                !.PreferredHash = PreferredHash,
                !.PreferredCompression = PreferredCompression]

\* The round signing with the subkey's private key instead of the primary's.
CertifyIdentity_SubkeySigns(id, k, dur) ==
    [id EXCEPT !.SelfSignature =
        SignUserId(SetSelfSignature(id.SelfSignature, dur),
                   id.UserId.Id, k.PrimaryKey, k.Subkeys[1].PrivateKey)]

\* The round signing first and setting the fields afterwards.
CertifyIdentity_SignFirst(id, k, dur) ==
    [id EXCEPT !.SelfSignature =
        SetSelfSignature(SignUserId(id.SelfSignature, id.UserId.Id,
                                    k.PrimaryKey, k.PrivateKey), dur)]

\* One round of the identity loop without its error: set the fields, then sign.
CertifyIdentity(id, k, dur) ==
    [id EXCEPT !.SelfSignature =
        SignUserId(SetSelfSignature(id.SelfSignature, dur),
                   id.UserId.Id, k.PrimaryKey, k.PrivateKey)]

\* The same round when SignUserId returns its error: the fields are set, and the
\* signature is not made.
CertifyIdentityFailed(id, dur) ==
    [id EXCEPT !.SelfSignature = SignFailed(SetSelfSignature(id.SelfSignature, dur))]

\* The round signing the primary public key instead of the subkey's.
CertifySubkey_OverPrimary(subkey, k, dur) ==
    [subkey EXCEPT !.Sig =
        SignKey([subkey.Sig EXCEPT !.KeyLifetimeSecs = dur],
                k.PrimaryKey, k.PrivateKey)]

\* One round of the subkey loop: set the lifetime, then sign the subkey's public key.
CertifySubkey(subkey, k, dur) ==
    [subkey EXCEPT !.Sig =
        SignKey([subkey.Sig EXCEPT !.KeyLifetimeSecs = dur],
                subkey.PublicKey, k.PrivateKey)]

CertifySubkeyFailed(subkey, dur) ==
    [subkey EXCEPT !.Sig = SignFailed([subkey.Sig EXCEPT !.KeyLifetimeSecs = dur])]

\* for _, id := range key.Identities, in the order the map yields; round failAt
\* (0: none) is the one whose SignUserId fails.
RECURSIVE IdentityLoop(_, _, _, _, _)
IdentityLoop(k, order, i, dur, failAt) ==
    IF i > Len(order) THEN [key |-> k, err |-> Nil]
    ELSE LET id == k.Identities[order[i]]
         IN  IF failAt = i
             THEN [key |-> [k EXCEPT !.Identities[order[i]] = CertifyIdentityFailed(id, dur)],
                   err |-> "SignUserId"]
             ELSE IdentityLoop([k EXCEPT !.Identities[order[i]] = CertifyIdentity(id, k, dur)],
                               order, i + 1, dur, failAt)

\* for _, subkey := range key.Subkeys.
RECURSIVE SubkeyLoop(_, _, _, _)
SubkeyLoop(k, i, dur, failAt) ==
    IF i > Len(k.Subkeys) THEN [key |-> k, err |-> Nil]
    ELSE IF failAt = i
         THEN [key |-> [k EXCEPT !.Subkeys[i] = CertifySubkeyFailed(k.Subkeys[i], dur)],
               err |-> "SignKey"]
         ELSE SubkeyLoop([k EXCEPT !.Subkeys[i] = CertifySubkey(k.Subkeys[i], k, dur)],
                         i + 1, dur, failAt)

\* A return that hands the local key back together with the error.
Return_KeyWithError(k, err) == [key |-> k, err |-> err]

\* What a return statement of CreateKey hands back, given the local key and the
\* error at that point.
Return(k, err) ==
    IF err # Nil THEN [key |-> Null, err |-> err] ELSE [key |-> k, err |-> Nil]

\* The orders a range over a map of these keys may take.
RangeOrders(S) == {o \in [1..Cardinality(S) -> S] : \A x \in S : \E i \in DOMAIN o : o[i] = x}

\* CreateKey as a function of its arguments and of what the library calls do
\* (lib): [local |-> the local key at the return, ret |-> the values returned].
CreateKeyOf(name, comment, email, config, b, a, lib) ==
    LET ne == NewEntity(name, comment, email, lib.rand)
    IN  IF ne.err # Nil THEN [local |-> Null, ret |-> Return(Null, ne.err)]
        ELSE LET dur == Dur(config, b, a)
                 ids == IdentityLoop(ne.e, lib.order, 1, dur, lib.failId)
             IN  IF ids.err # Nil THEN [local |-> ids.key, ret |-> Return(ids.key, ids.err)]
                 ELSE LET subs == SubkeyLoop(ids.key, 1, dur, lib.failSub)
                      IN  [local |-> subs.key, ret |-> Return(subs.key, subs.err)]

----------------------------------------------------------------------------
(* Serialization and the armor envelope. *)

PublicKeyPacket(pk) ==
    [tag |-> IF pk.IsSubkey THEN "PublicSubkey" ELSE "PublicKey", n |-> pk.n]

PrivateKeyPacket(priv) ==
    [tag |-> IF priv.PublicKey.IsSubkey THEN "PrivateSubkey" ELSE "PrivateKey",
     n |-> priv.PublicKey.n, secret |-> priv.secret]

UserIdPacket(uid) == [tag |-> "UserId", Id |-> uid.Id]

WriteError(err) == [tag |-> "error", err |-> err]

\* Signature.Serialize: an error on a signature that was never signed.
SignaturePacket(sig) ==
    IF sig.sig = Null THEN WriteError("InvalidArgumentError")
    ELSE [tag |-> "Signature", SigType |-> sig.SigType,
          hashed |-> sig.outSubpackets, sig |-> sig.sig]

\* A run of writes each of which returns on an error: the packets written before
\* the first error, and that error.
RECURSIVE Written(_, _)
Written(writes, i) ==
    IF i > Len(writes) THEN [packets |-> writes, err |-> Nil]
    ELSE IF writes[i].tag = "error"
         THEN [packets |-> SubSeq(writes, 1, i - 1), err |-> writes[i].err]
         ELSE Written(writes, i + 1)

RECURSIVE Concat(_)
Concat(seqs) == IF seqs = <<>> THEN <<>> ELSE Head(seqs) \o Concat(Tail(seqs))

\* Entity.Serialize: the public key, each identity with its signatures, each
\* subkey's public key with its binding signature.
Serialize(e, order) ==
    Written(
        <<PublicKeyPacket(e.PrimaryKey)>>
        \o Concat([i \in 1..Len(order) |->
                     LET id == e.Identities[order[i]]
                     IN  <<UserIdPacket(id.UserId), SignaturePacket(id.SelfSignature)>>
                         \o [j \in 1..Len(id.Signatures) |-> SignaturePacket(id.Signatures[j])]])
        \o Concat([i \in 1..Len(e.Subkeys) |->
                     <<PublicKeyPacket(e.Subkeys[i].PublicKey),
                       SignaturePacket(e.Subkeys[i].Sig)>>]),
        1)

\* Sign number idx of SerializePrivate, where sign number failSign (0: none) fails
\* and ends the call: signed is sig signed again.
ReSign(sig, signed, idx, failSign) ==
    IF failSign = 0 \/ idx < failSign THEN signed
    ELSE IF idx = failSign THEN SignFailed(sig)
    ELSE sig

\* The entity SerializePrivate leaves: it signs every self-signature and binding
\* signature again, in place.
ReSigned(e, order, failSign) ==
    [e EXCEPT !.Identities =
                  [n \in DOMAIN e.Identities |->
                      [e.Identities[n] EXCEPT !.SelfSignature =
                          ReSign(@, SignUserId(@, e.Identities[n].UserId.Id,
                                               e.PrimaryKey, e.PrivateKey),
                                 CHOOSE i \in 1..Len(order) : order[i] = n, failSign)]],
              !.Subkeys =
                  [i \in 1..Len(e.Subkeys) |->
                      [e.Subkeys[i] EXCEPT !.Sig =
                          ReSign(@, SignKey(@, e.Subkeys[i].PublicKey, e.PrivateKey),
                                 Len(order) + i, failSign)]]]

\* Entity.SerializePrivate: the private key, each identity with its self-signature
\* signed again, each subkey's private key with its binding signature signed again.
SerializePrivate(e, order, failSign) ==
    LET s == ReSigned(e, order, failSign)
        nIds == Len(order)
        w == Written(
                 <<PrivateKeyPacket(e.PrivateKey)>>
                 \o Concat([i \in 1..nIds |->
                              LET id == s.Identities[order[i]]
                              IN  <<UserIdPacket(id.UserId),
                                    IF failSign = i THEN WriteError("SignUserId")
                                    ELSE SignaturePacket(id.SelfSignature)>>])
                 \o Concat([i \in 1..Len(e.Subkeys) |->
                              <<PrivateKeyPacket(s.Subkeys[i].PrivateKey),
                                IF failSign = nIds + i THEN WriteError("SignKey")
                                ELSE SignaturePacket(s.Subkeys[i].Sig)>>]),
                 1)
    IN  [packets |-> w.packets, err |-> w.err, e |-> s]

\* The text in the bytes.Buffer: the armor header, the packets, the footer.
EmptyText == [Type |-> "", packets |-> <<>>, closed |-> FALSE]

\* armor.Encode on a bytes.Buffer, whose Write returns no error.
ArmorEncode(blockType) ==
    [w |-> [Type |-> blockType, packets |-> <<>>, closed |-> FALSE], err |-> Nil]

\* The armor writer's Close: the checksum and the footer.
ArmorClose(w) == [w |-> [w EXCEPT !.closed = TRUE], err |-> Nil]

FirstError(errs) ==
    IF \E i \in 1..Len(errs) : errs[i] # Nil
    THEN errs[CHOOSE i \in 1..Len(errs) : errs[i] # Nil /\ \A j \in 1..(i - 1) : errs[j] = Nil]
    ELSE Nil

\* Armor serializing as ArmorPrivate does.
ArmorSerialize_Private(k, order) ==
    LET ser == SerializePrivate(k, order, 0) IN [packets |-> ser.packets, err |-> ser.err]

\* key.Serialize(armor) in Armor.
ArmorSerialize(k, order) == Serialize(k, order)

\* What Armor and ArmorPrivate return after the armor was opened, given the error
\* the Serialize and Close steps raised (stepErr, kept for the record).
ArmorReturn(text, stepErr) == [text |-> text, err |-> Nil, stepErr |-> stepErr]

\* Key.Armor.
Armor(k, order) ==
    LET enc == ArmorEncode(PublicKeyType)
    IN  IF enc.err # Nil THEN [text |-> EmptyText, err |-> enc.err, stepErr |-> enc.err]
        ELSE LET ser == ArmorSerialize(k, order)
                 cl == ArmorClose([enc.w EXCEPT !.packets = ser.packets])
             IN  ArmorReturn(cl.w, FirstError(<<ser.err, cl.err>>))

\* Key.ArmorPrivate.
ArmorPrivate(k, order, failSign) ==
    LET enc == ArmorEncode(PrivateKeyType)
    IN  IF enc.err # Nil
        THEN [text |-> EmptyText, err |-> enc.err, stepErr |-> enc.err, e |-> k]
        ELSE LET ser == SerializePrivate(k, order, failSign)
                 cl == ArmorClose([enc.w EXCEPT !.packets = ser.packets])
             IN  ArmorReturn(cl.w, FirstError(<<ser.err, cl.err>>)) @@ [e |-> ser.e]

----------------------------------------------------------------------------
(* Decoding an armored text back to an entity. *)

RECURSIVE TrimSpace(_)
TrimSpace(s) ==
    IF s = <<>> THEN s
    ELSE IF Head(s) = " " THEN TrimSpace(Tail(s))
    ELSE IF s[Len(s)] = " " THEN TrimSpace(SubSeq(s, 1, Len(s) - 1))
    ELSE s

\* One character of the user id scanner; offsets count from 0.
ScanUserId(st, offset, ch) ==
    LET s1 == IF st.state = 0 THEN [st EXCEPT !.state = 1, !.nStart = offset]
              ELSE IF st.state = 2 THEN [st EXCEPT !.state = 3, !.cStart = offset]
              ELSE IF st.state = 5 THEN [st EXCEPT !.state = 6, !.eStart = offset]
              ELSE st
    IN  IF s1.state = 1 /\ ch = "(" THEN [s1 EXCEPT !.state = 2, !.nEnd = offset]
        ELSE IF s1.state = 1 /\ ch = "<" THEN [s1 EXCEPT !.state = 5, !.nEnd = offset]
        ELSE IF s1.state = 3 /\ ch = ")" THEN [s1 EXCEPT !.state = 4, !.cEnd = offset]
        ELSE IF s1.state = 4 /\ ch = "<" THEN [s1 EXCEPT !.state = 5]
        ELSE IF s1.state = 6 /\ ch = ">" THEN [s1 EXCEPT !.state = 7, !.eEnd = offset]
        ELSE s1

RECURSIVE ScanAll(_, _, _)
ScanAll(st, id, i) ==
    IF i > Len(id) THEN st ELSE ScanAll(ScanUserId(st, i - 1, id[i]), id, i + 1)

\* The name, comment and email of a user id string.
parseUserId(id) ==
    LET st0 == [state |-> 0, nStart |-> 0, nEnd |-> 0, cStart |-> 0, cEnd |-> 0,
                eStart |-> 0, eEnd |-> 0]
        st1 == ScanAll(st0, id, 1)
        st == IF st1.state = 1 THEN [st1 EXCEPT !.nEnd = Len(id)]
              ELSE IF st1.state = 3 THEN [st1 EXCEPT !.cEnd = Len(id)]
              ELSE IF st1.state = 6 THEN [st1 EXCEPT !.eEnd = Len(id)]
              ELSE st1
    IN  [Id |-> id,
         Name |-> TrimSpace(SubSeq(id, st.nStart + 1, st.nEnd)),
         Comment |-> TrimSpace(SubSeq(id, st.cStart + 1, st.cEnd)),
         Email |-> TrimSpace(SubSeq(id, st.eStart + 1, st.eEnd))]

SubpacketVal(subs, type, default) ==
    IF \E i \in 1..Len(subs) : subs[i].type = type
    THEN subs[CHOOSE i \in 1..Len(subs) : subs[i].type = type].val
    ELSE default

\* A signature packet read back: every field comes from its subpacket, and is
\* absent without one.
ParseSignature(p) ==
    [SigType |-> p.SigType,
     IssuerKeyId |-> SubpacketVal(p.hashed, "issuer", None),
     IsPrimaryId |-> SubpacketVal(p.hashed, "primaryUserId", FALSE),
     KeyLifetimeSecs |-> SubpacketVal(p.hashed, "keyExpiration", None),
     PreferredSymmetric |-> SubpacketVal(p.hashed, "prefSymmetricAlgos", <<>>),
     PreferredHash |-> SubpacketVal(p.hashed, "prefHashAlgos", <<>>),
     PreferredCompression |-> SubpacketVal(p.hashed, "prefCompression", <<>>),
     outSubpackets |-> p.hashed,
     sig |-> p.sig]

IsKeyPacket(p, subkey) ==
    p.tag \in (IF subkey THEN {"PublicSubkey", "PrivateSubkey"} ELSE {"PublicKey", "PrivateKey"})

ParsePublicKey(p) == PublicKeyOf(p.n, p.tag \in {"PublicSubkey", "PrivateSubkey"})

ParsePrivateKey(p) ==
    IF p.tag \in {"PrivateKey", "PrivateSubkey"}
    THEN [PublicKey |-> ParsePublicKey(p), secret |-> p.secret]
    ELSE Null

\* The packets after the primary key: a user id with its self-signature, or a
\* subkey with its binding signature, each verified against the primary key.
RECURSIVE ReadPackets(_, _, _)
ReadPackets(pkts, i, e) ==
    IF i > Len(pkts) THEN [e |-> e, err |-> Nil]
    ELSE IF i + 1 > Len(pkts) \/ pkts[i + 1].tag # "Signature"
         THEN [e |-> Null, err |-> "MalformedPacket"]
    ELSE LET p == pkts[i]
             sig == ParseSignature(pkts[i + 1])
         IN  IF p.tag = "UserId"
             THEN LET uid == parseUserId(p.Id)
                  IN  IF /\ sig.SigType = SigTypePositiveCert
                         /\ sig.IssuerKeyId = KeyId(e.PrimaryKey)
                         /\ Verifies(sig, UserIdData(uid.Id, e.PrimaryKey), e.PrimaryKey)
                      THEN ReadPackets(pkts, i + 2,
                               [e EXCEPT !.Identities =
                                   [n \in DOMAIN e.Identities \cup {uid.Id} |->
                                       IF n = uid.Id
                                       THEN [Name |-> uid.Id, UserId |-> uid,
                                             SelfSignature |-> sig, Signatures |-> <<>>]
                                       ELSE e.Identities[n]]])
                      ELSE [e |-> Null, err |-> "MalformedPacket"]
             ELSE IF IsKeyPacket(p, TRUE)
             THEN IF /\ sig.SigType = SigTypeSubkeyBinding
                     /\ Verifies(sig, KeyData(e.PrimaryKey, ParsePublicKey(p)), e.PrimaryKey)
                  THEN ReadPackets(pkts, i + 2,
                           [e EXCEPT !.Subkeys =
                               Append(@, [PublicKey |-> ParsePublicKey(p),
                                          PrivateKey |-> ParsePrivateKey(p),
                                          Sig |-> sig])])
                  ELSE [e |-> Null, err |-> "MalformedPacket"]
             ELSE [e |-> Null, err |-> "MalformedPacket"]

\* decode: the envelope (header, checksum and footer), then the packet stream.
Decode(text) ==
    IF ~text.closed \/ text.Type \notin {PublicKeyType, PrivateKeyType}
    THEN [e |-> Null, err |-> "MalformedArmor"]
    ELSE IF text.packets = <<>> \/ ~IsKeyPacket(text.packets[1], FALSE)
    THEN [e |-> Null, err |-> "MalformedPacket"]
    ELSE ReadPackets(text.packets, 2,
             [PrimaryKey |-> ParsePublicKey(text.packets[1]),
              PrivateKey |-> ParsePrivateKey(text.packets[1]),
              Identities |-> [n \in {} |-> Null],
              Subkeys |-> <<>>])

----------------------------------------------------------------------------
(* The calls. *)

NoOut == [op |-> "none", text |-> EmptyText, err |-> Nil, stepErr |-> Nil]

Init ==
    /\ build \in Builds
    /\ arch \in Archs
    /\ pc = "start"
    /\ args = Null
    /\ key = Null
    /\ r = [key |-> Null, err |-> Nil]
    /\ out = NoOut

\* What the library calls of one CreateKey call may do: the keys generated, the
\* order the identity map is ranged in, and the call that fails, if one does
\* (failId, failSub: 0 for none, 1 for the one identity, the one subkey).
LibOutcomes(name, comment, email) ==
    LET uid == NewUserId(name, comment, email)
        ids == IF uid = Null THEN {} ELSE {uid.Id}
    IN  { [rand |-> [fail |-> f, primary |-> p, sub |-> s],
           order |-> o, failId |-> fi, failSub |-> fs] :
            f \in {"none", "GenerateKey"},
            p \in KeyMaterial, s \in KeyMaterial,
            o \in RangeOrders(ids),
            fi \in 0..1, fs \in 0..1 }

CreateKey ==
    /\ pc = "start"
    /\ \E name \in Names, comment \in Comments, email \in Emails,
          expiry \in Expiries(build) :
         \E lib \in {l \in LibOutcomes(name, comment, email) :
                        /\ l.rand.primary # l.rand.sub
                        /\ (l.rand.fail # "none" => l.failId = 0 /\ l.failSub = 0)
                        /\ (l.failId # 0 => l.failSub = 0)} :
            LET config == [Expiry |-> expiry]
                res == CreateKeyOf(name, comment, email, config, build, arch, lib)
            IN  /\ args' = [name |-> name, comment |-> comment, email |-> email,
                            config |-> config, lib |-> lib]
                /\ key' = res.local
                /\ r' = res.ret
    /\ pc' = "returned"
    /\ UNCHANGED <<build, arch, out>>

KeyOrder == RangeOrders(DOMAIN r.key.Identities)

CallArmor ==
    /\ pc = "returned"
    /\ r.err = Nil
    /\ \E order \in KeyOrder :
         out' = [op |-> "Armor"] @@ Armor(r.key, order)
    /\ UNCHANGED <<build, arch, pc, args, key, r>>

CallArmorPrivate ==
    /\ pc = "returned"
    /\ r.err = Nil
    /\ \E order \in KeyOrder :
         \E failSign \in 0..(Len(order) + Len(r.key.Subkeys)) :
            LET res == ArmorPrivate(r.key, order, failSign)
            IN  /\ out' = [op |-> "ArmorPrivate", text |-> res.text, err |-> res.err,
                            stepErr |-> res.stepErr]
                /\ r' = [r EXCEPT !.key = res.e]
    /\ UNCHANGED <<build, arch, pc, args, key>>

Next == CreateKey \/ CallArmor \/ CallArmorPrivate

Spec == Init /\ [][Next]_vars

----------------------------------------------------------------------------
(* Properties. *)

Returned == pc = "returned"

Succeeded == Returned /\ r.err = Nil

\* CreateKey has returned a key and nothing was called on it since.
AtReturn == Succeeded /\ out = NoOut

IdentitiesOf(e) == {e.Identities[n] : n \in DOMAIN e.Identities}

SubkeysOf(e) == {e.Subkeys[i] : i \in 1..Len(e.Subkeys)}

\* C1: when CreateKey returns without error, every identity of the returned key
\* has exactly one self-signature (its SelfSignature is signed and it has no other
\* signature), whose issuer is the key id of the primary key of the same key and
\* which verifies against that primary key.
C1_SelfSignatureByPrimary ==
    AtReturn =>
        \A id \in IdentitiesOf(r.key) :
            /\ id.SelfSignature.sig # Null
            /\ id.Signatures = <<>>
            /\ id.SelfSignature.IssuerKeyId = KeyId(r.key.PrimaryKey)
            /\ SubpacketVal(id.SelfSignature.outSubpackets, "issuer", None)
                   = KeyId(r.key.PrimaryKey)
            /\ Verifies(id.SelfSignature,
                        UserIdData(id.UserId.Id, r.key.PrimaryKey), r.key.PrimaryKey)

C1_Witness ==
    /\ AtReturn
    /\ \E id \in IdentitiesOf(r.key) :
           id.SelfSignature.sig # Null /\ id.SelfSignature.sig.signer = r.key.PrivateKey.secret

\* C2: when CreateKey returns without error, every subkey of the returned key has
\* one binding signature, made over that subkey's own public key and with the
\* primary private key, the one that signed the identities' self-signatures.
C2_BindingByPrimary ==
    AtReturn =>
        \A sk \in SubkeysOf(r.key) :
            /\ sk.Sig.sig # Null
            /\ sk.Sig.SigType = SigTypeSubkeyBinding
            /\ Verifies(sk.Sig, KeyData(r.key.PrimaryKey, sk.PublicKey), r.key.PrimaryKey)
            /\ sk.Sig.sig.signer = r.key.PrivateKey.secret
            /\ \A id \in IdentitiesOf(r.key) :
                   id.SelfSignature.sig # Null
                   /\ id.SelfSignature.sig.signer = sk.Sig.sig.signer

C2_Witness ==
    /\ AtReturn
    /\ \E sk \in SubkeysOf(r.key) :
           /\ sk.Sig.sig # Null
           /\ sk.PublicKey # r.key.PrimaryKey
           /\ sk.Sig.sig.over[1] = KeyData(r.key.PrimaryKey, sk.PublicKey)

\* The expiry the caller supplied, in seconds: the Duration itself, and for the
\* older Config the days it counts.
SuppliedExpiry(config, b) ==
    IF b = "gpgeez.go" THEN config.Expiry
    ELSE LET t == (config.Expiry[1] * Limb + config.Expiry[2]) * SecondsPerDay
         IN  Duration(FALSE, t \div Limb, t % Limb, 0)

LifetimeIs(sig, expiry) ==
    /\ sig.KeyLifetimeSecs # None
    /\ Duration(FALSE, sig.KeyLifetimeSecs[1], sig.KeyLifetimeSecs[2], 0) = expiry

\* C3: after a successful CreateKey the key lifetime of every identity's
\* self-signature and of every subkey's binding signature is the supplied expiry
\* in seconds, exactly, for every expiry.
C3_LifetimeIsExpiry ==
    AtReturn =>
        /\ \A id \in IdentitiesOf(r.key) :
               LifetimeIs(id.SelfSignature, SuppliedExpiry(args.config, build))
        /\ \A sk \in SubkeysOf(r.key) :
               LifetimeIs(sk.Sig, SuppliedExpiry(args.config, build))

HasPreferences(sig) ==
    /\ sig.PreferredSymmetric
           = <<CipherAES256, CipherAES192, CipherAES128, CipherCAST5, Cipher3DES>>
    /\ sig.PreferredHash = <<SHA256, SHA1, SHA384, SHA512, SHA224>>
    /\ sig.PreferredCompression = <<CompressionZLIB, CompressionZIP>>

\* C4: every identity's self-signature of a key CreateKey returned carries the
\* three preference lists in the documented order, the signature was computed
\* over exactly these lists, and no later call changes them.
C4_DefaultPreferences ==
    Succeeded =>
        \A id \in IdentitiesOf(r.key) :
            /\ HasPreferences(id.SelfSignature)
            /\ id.SelfSignature.sig # Null =>
                   /\ HasPreferences(ParseSignature(SignaturePacket(id.SelfSignature)))
                   /\ id.SelfSignature.sig.over[2] = id.SelfSignature.outSubpackets

C4_Witness ==
    /\ Succeeded
    /\ out.op # "none"
    /\ \E id \in IdentitiesOf(r.key) :
           id.SelfSignature.sig # Null /\ Len(id.SelfSignature.PreferredHash) = 5

\* The error of the first step of the CreateKey call that fails, Nil when none does.
FailedStep ==
    IF NewUserId(args.name, args.comment, args.email) = Null THEN "InvalidArgumentError"
    ELSE IF args.lib.rand.fail # "none" THEN args.lib.rand.fail
    ELSE IF args.lib.failId # 0 THEN "SignUserId"
    ELSE IF args.lib.failSub # 0 THEN "SignKey"
    ELSE Nil

\* C7: when key generation, a self-signing step or a binding-signing step of
\* CreateKey fails, CreateKey returns that error and no key, and nothing after the
\* failed step was signed.
C7_FailureReturnsNoKey ==
    (Returned /\ FailedStep # Nil) =>
        /\ r.err = FailedStep
        /\ r.key = Null
        /\ FailedStep \in {"InvalidArgumentError", "GenerateKey"} => key = Null
        /\ FailedStep = "SignUserId" =>
               /\ \E id \in IdentitiesOf(key) : id.SelfSignature.sig = Null
               /\ \A sk \in SubkeysOf(key) :
                      sk.Sig.sig = Null /\ sk.Sig.KeyLifetimeSecs = None
        /\ FailedStep = "SignKey" =>
               \E sk \in SubkeysOf(key) : sk.Sig.sig = Null

C7_Witness ==
    /\ Returned
    /\ FailedStep = "SignKey"
    /\ r.key = Null
    /\ \A id \in IdentitiesOf(key) : id.SelfSignature.sig # Null

IsPrivatePacket(p) ==
    p.tag \in {"PrivateKey", "PrivateSubkey"} \/ "secret" \in DOMAIN p

\* C8: the text Armor returns holds no private key material: none of its packets
\* is a private key packet, and the entity it decodes to has no private key, for
\* the primary key and for every subkey.
C8_ArmorHoldsNoPrivateKey ==
    out.op = "Armor" =>
        /\ \A i \in 1..Len(out.text.packets) : ~IsPrivatePacket(out.text.packets[i])
        /\ LET d == Decode(out.text)
           IN  d.err = Nil =>
                   /\ d.e.PrivateKey = Null
                   /\ \A sk \in SubkeysOf(d.e) : sk.PrivateKey = Null

C8_Witness ==
    /\ out.op = "Armor"
    /\ r.key.PrivateKey # Null
    /\ Decode(out.text).err = Nil
    /\ Len(Decode(out.text).e.Subkeys) = 1

Trimmed(s) == TrimSpace(s) = s

\* The fields of a self-signature the round trip is about, with its key lifetime
\* read as lifetime.
SameSelfSignature(decoded, original, lifetime) ==
    /\ decoded.IssuerKeyId = original.IssuerKeyId
    /\ decoded.KeyLifetimeSecs = lifetime
    /\ decoded.PreferredSymmetric = original.PreferredSymmetric
    /\ decoded.PreferredHash = original.PreferredHash
    /\ decoded.PreferredCompression = original.PreferredCompression

\* Decoding the text decodes to an entity with the fingerprint and the identities
\* of e, each self-signature's key lifetime being Lifetime of the original's.
RoundTrips(text, e, Lifetime(_)) ==
    LET d == Decode(text)
    IN  /\ d.err = Nil
        /\ Fingerprint(d.e.PrimaryKey) = Fingerprint(e.PrimaryKey)
        /\ DOMAIN d.e.Identities = DOMAIN e.Identities
        /\ \A n \in DOMAIN e.Identities :
               /\ d.e.Identities[n].Name = e.Identities[n].Name
               /\ d.e.Identities[n].UserId = e.Identities[n].UserId
               /\ SameSelfSignature(d.e.Identities[n].SelfSignature,
                                    e.Identities[n].SelfSignature,
                                    Lifetime(e.Identities[n].SelfSignature.KeyLifetimeSecs))

AsIs(lifetime) == lifetime

ZeroAsAbsent(lifetime) == IF lifetime = <<0, 0>> THEN None ELSE lifetime

\* Armor was the last call, on the key as CreateKey returned it.
ArmoredAsReturned == Succeeded /\ out.op = "Armor" /\ r.key = key

C10_ErrorsPropagate ==
    (out.op # "none" /\ out.stepErr # Nil) => out.err # Nil

====
